---- MODULE Spec2Model ----
(***************************************************************************)
(* Group-cooperative tiled prefix scan of bulk/algorithm/scan.hpp.         *)
(*                                                                         *)
(* A group of `groupsize` workers, each handling `grainsize` elements per  *)
(* tile, runs inclusive_scan / exclusive_scan over source[0 .. last).      *)
(* Every worker is a process with its own program counter and locals; the  *)
(* scratch buffer (sums, stage) and the destination are shared.  Workers   *)
(* interleave freely between barriers; a barrier releases once every       *)
(* worker of the group waits in one.                                       *)
(***************************************************************************)
EXTENDS Integers, Sequences, FiniteSets, TLC

\* ------------------------------------------------------------------ bounds
\* every input length 0 .. MaxLen is explored, next to the tile-relative ones
MaxLen == 3
\* grain sizes 1 .. MaxGrain
MaxGrain == 2
\* the largest value of a size_type scaled down, so that lengths above it are
\* within reach
ShortIntMax == 7
\* group sizes (template parameter groupsize) of the tiled scans
GroupSizes == {1, 2, 4}
\* groupsize of the kernels whose buffer comes from the allocator at run time
MallocGroupSizes == {1, 2}
\* group sizes of the small scan called on its own
SmallGroupSizes == 1 .. 7

VARIABLES
  \* arguments of the call, fixed for a run
  groupsize,      \* W: workers in the group
  grainsize,      \* G: elements per worker per tile
  binary_op,      \* the combining functor: "plus" or "concat"
  init,           \* the caller's initial value
  source,         \* the input range, a function on 0 .. last-1
  last,           \* the input length N (first is position 0)
  calls,          \* the entry points the kernel calls, in order
  cuda_arch,      \* __CUDA_ARCH__: >= 200 allocates the buffer at run time
  input_type,     \* the element type of the source: "same" as the result type, or "unsigned char"
  int_max,        \* the largest value of size_type (int)
  placement,      \* what the allocator answers: "static", "shared", "global", "null"
  \* shared memory
  sums,           \* scan_buffer::sums[2*groupsize]
  stage,          \* scan_buffer::inputs / results (one aliased region), by cells
                  \* of the size of an input_type
  result,         \* result[k]: destination range of the k-th call
  buffer,         \* the scratch buffer: "none", "static", "shared", "global", "null", "freed"
  \* per-worker state
  pc,             \* program point
  call,           \* index into calls of the running call
  first,          \* the worker's copy of the iterator `first` (an offset)
  carry_in,       \* scan_with_buffer's carry_in
  x,              \* scan_with_buffer's x
  local_inputs,   \* scan_with_buffer's local_inputs[grainsize]
  small_x,        \* small scan's x
  offset,         \* small scan's loop variable
  ping,           \* small scan's ping: 0 = first (sums), 1 = buffer (sums + groupsize)
  total,          \* small scan's result
  \* history of the run
  access,         \* access[w]: the scratch buffer slots worker w has read and
                  \* written since the last barrier opened
  written,        \* written[k][j]: how often slot j of the k-th destination was written
  acquired,       \* calls of the allocator
  released        \* blocks given back

config == <<groupsize, grainsize, binary_op, init, source, last, calls, cuda_arch,
           input_type, int_max, placement>>
shared == <<sums, stage, result, buffer>>
locals == <<first, carry_in, x, local_inputs, small_x, offset, ping, total>>
history == <<access, written, acquired, released>>
vars == <<config, shared, pc, call, locals, history>>

\* ----------------------------------------------------------------- values
Min(a, b) == IF a < b THEN a ELSE b
Max(a, b) == IF a > b THEN a ELSE b

\* lines 96-101, 158: an object nobody has written yet (a slot of the
\* uninitialized buffer, a local without initializer) is marked so; what it
\* holds is unknown until it is read
Unwritten(op) == IF op = "plus" THEN -1000000 ELSE <<-1>>

\* a value of which nothing is known: what the read of a never written object
\* gave, or what was computed from such a value.  It stands for every value of
\* the type at once, and equals no value the scan is to produce
Indeterminate(op) == IF op = "plus" THEN -1000001 ELSE <<-2>>

\* what memory the platform has cleared holds
Zeroed(op) == IF op = "plus" THEN 0 ELSE <<>>

\* v is a value the program has computed from values it knows
Known(v) == v # Unwritten(binary_op) /\ v # Indeterminate(binary_op)

\* the outcomes of reading an object marked v, each object on its own: zero,
\* or any value whatever (Indeterminate covers them all, zero included); the
\* object holds what was read from then on
Reads(v) ==
  IF v = Unwritten(binary_op)
  THEN {Zeroed(binary_op), Indeterminate(binary_op)}
  ELSE {v}

\* the value of binary_op(a, b): integer addition (thrust::plus<int>) or
\* concatenation (associative, not commutative); nothing is known of a result
\* computed from an operand of which nothing is known
BinaryOp(a, b) ==
  IF ~ (Known(a) /\ Known(b)) THEN Indeterminate(binary_op)
  ELSE IF binary_op = "plus" THEN a + b ELSE a \o b

\* content of a destination slot before the call
Untouched(op) == IF op = "plus" THEN -1 ELSE <<>>

Workers == 0 .. groupsize - 1
Entry(w) == calls[call[w]]

\* ------------------------------------------------- the pieces of the code
\* line 141
elements_per_group == groupsize * grainsize

\* a value converted to size_type (int): kept when it fits, else reduced
\* modulo the number of values of the type
to_int(v) ==
  IF v >= - int_max - 1 /\ v <= int_max THEN v
  ELSE ((v + int_max + 1) % (2 * int_max + 2)) - int_max - 1

\* a value assigned to a variable of input_type
to_input(v) == IF input_type = "unsigned char" /\ Known(v) THEN v % 256 ELSE v

\* the tile size without the limit of the remaining elements
partition_size_full(f) == elements_per_group

\* line 145: thrust::min<size_type>(elements_per_group, last - first)
partition_size(f) == Min(elements_per_group, to_int(last - f))

\* the slice started at the worker's index
local_offset_dense(tid) == tid

\* line 153
local_offset(tid) == grainsize * tid

\* line 155
local_size(tid, psize) == Max(0, Min(grainsize, to_int(psize - grainsize * tid)))

\* the loop test admitting first = last
more_tiles_inclusive(f) == f <= last

\* line 143: the loop test
more_tiles(f) == f < last

\* line 143: first += elements_per_group
advance(f) == f + elements_per_group

\* reading *(first + i): out of the range the content is unspecified
SourceAt(i) == IF i \in DOMAIN source THEN source[i] ELSE Unwritten(binary_op)

\* bulk::copy_n: the elements worker tid moves out of n (the workers share the
\* range between them, element i going to worker i mod groupsize)
copy_n_share(tid, n) == {i \in 0 .. n - 1 : i % groupsize = tid}

\* the accumulation with the operands of binary_op exchanged
RECURSIVE accumulate_swapped(_, _)
accumulate_swapped(li, n) ==
  IF n = 1 THEN li[0] ELSE BinaryOp(li[n - 1], accumulate_swapped(li, n - 1))

\* lines 162-170: the fused copy and accumulate; li are the inputs read so far,
\* n of them valid: x = i ? binary_op(x, local_inputs[i]) : local_inputs[i]
RECURSIVE accumulate(_, _)
accumulate(li, n) ==
  IF n = 1 THEN li[0] ELSE to_input(BinaryOp(accumulate(li, n - 1), li[n - 1]))

\* combine-then-store in both modes
scan_store_combined(inclusive, xv, in) == BinaryOp(xv, in)

\* lines 194-204, one element: the value stored for local_inputs[i] and x after it
\* (x is an input_type, line 158)
scan_store(inclusive, xv, in) == IF inclusive THEN to_input(BinaryOp(xv, in)) ELSE xv
scan_next(inclusive, xv, in) == to_input(BinaryOp(xv, in))

\* lines 189-206 unrolled: x before element i (x0 is x on entry of the loop)
RECURSIVE scan_x(_, _, _, _)
scan_x(inclusive, x0, li, i) ==
  IF i = 0 THEN x0
  ELSE scan_next(inclusive, scan_x(inclusive, x0, li, i - 1), li[i - 1])

\* the round with the worker at distance `off` left out
round_x_strict(tid, off, back, xv) == IF tid > off THEN BinaryOp(back, xv) ELSE xv

\* lines 59-62: the round of the small scan
round_x(tid, off, back, xv) == IF tid >= off THEN BinaryOp(back, xv) ELSE xv

\* line 57: offset += offset
next_offset(off) == off + off

\* the loop test that ends once the doubled offset passes the size
more_rounds_pow2(off) == off + off <= groupsize

\* line 57: the loop test of the small scan
more_rounds(off) == off < groupsize

\* ping and pong not exchanged
no_swap(p) == p

\* line 64: thrust::swap(ping, pong)
swap(p) == 1 - p

\* the total read from the first slot
total_first(size) == 0

\* line 71: the index of the total, ping[size - 1]
total_index(size) == size - 1

\* line 73
exclusive_x(tid, ini, prev) == IF tid = 0 THEN ini ELSE prev

\* the carry of the first tile kept for every tile
stale_carry(returned, carry) == carry

\* line 180: carry_in = small_inplace_exclusive_scan_with_buffer(...)
next_carry(returned, carry) == returned

\* the wait of line 177 taken only by the workers that stored a sum
fold_exit_guarded(n) == IF n # 0 THEN "b_177" ELSE "s_init"

\* lines 172-177: every worker waits in line 177, with or without a sum to store
fold_exit(n) == "b_177"

\* slot i of the buffer `ping` points to: sums (0) or sums + groupsize (1)
Slot(p, i) == p * groupsize + i

\* the mode flag ignored
always_inclusive(entry) == TRUE

\* template parameter `inclusive` of scan_with_buffer for an entry point
Inclusive(entry) == entry # "exclusive_scan"

\* the test that admits every index of the stage
in_stage(index, psize) == index < elements_per_group

\* lines 165, 192: index < partition_size
in_partition(index, psize) == index < psize

\* lines 164-165, 191-192: the stage positions of worker tid's slice
slice(tid, psize) ==
  {local_offset(tid) + i : i \in {j \in 0 .. grainsize - 1 :
                                    in_partition(local_offset(tid) + j, psize)}}

\* line 165: the elements of worker tid's slice that lie in the partition
valid(tid, psize) == Cardinality(slice(tid, psize))

\* the buffer never given back
loop_exit_leak(arch) == "return"

\* lines 233, 245-249: after the tile loop bulk::free when the buffer was
\* allocated at run time
loop_exit(arch) == IF arch >= 200 THEN "free" ELSE "return"

\* the copy out started without the wait
scan_no_wait(tid) == "copy_out"

\* line 208: g.wait() between the scan and the copy out
scan_wait(tid) == "b_208"

\* ------------------------------------------------- the views of the stage
\* lines 98-102: inputs and results are one region.  The stage is an array of
\* cells of the size of an input_type: inputs[i] is cell i, results[i] the
\* cells an intermediate_type at index i covers (one where the two types are
\* the same, sizeof(int) bytes above unsigned char inputs)
result_cells(itype) == IF itype = "unsigned char" THEN 4 ELSE 1

\* the cells of results[i]
results_at(i) ==
  result_cells(input_type) * i .. result_cells(input_type) * (i + 1) - 1

\* byte k of the int v (two's complement, the lowest byte first)
byte(v, k) ==
  LET u == IF v >= 0 THEN v ELSE v + 2147483647 + 1
      b == CASE k = 0 -> u % 256
             [] k = 1 -> (u \div 256) % 256
             [] k = 2 -> (u \div 65536) % 256
             [] OTHER -> u \div 16777216
  IN IF k = 3 /\ v < 0 THEN b + 128 ELSE b

\* what cell k of results[i] holds once v was stored there (line 199)
results_cell(v, k) ==
  IF result_cells(input_type) = 1 \/ ~ Known(v) THEN v ELSE byte(v, k)

\* the value read as results[i] from the stage st (line 210)
results_load(st, i) ==
  IF result_cells(input_type) = 1 THEN st[i]
  ELSE IF \E c \in results_at(i) : ~ Known(st[c])
       THEN Indeterminate(binary_op)
       ELSE LET b == [k \in 0 .. 3 |-> st[4 * i + k]]
            IN b[0] + 256 * b[1] + 65536 * b[2]
                 + 16777216 * (IF b[3] >= 128 THEN b[3] - 256 ELSE b[3])

\* -------------------------------------------------------------- the history
NoAccess == [rd |-> {}, wr |-> {}]

Sums(slots) == {<<"sums", i>> : i \in slots}
Stage(slots) == {<<"stage", i>> : i \in slots}
\* the cells of the results of the positions `slots`
Results(slots) == Stage(UNION {results_at(i) : i \in slots})

\* worker w reads the slots rd and writes the slots wr of the scratch buffer
Touch(w, rd, wr) ==
  access' = [access EXCEPT ![w] = [rd |-> @.rd \cup rd, wr |-> @.wr \cup wr]]

\* ------------------------------------------------------------ initial state
Kernels ==
  { <<"inclusive_scan">>, <<"inclusive_scan_noinit">>,
    <<"exclusive_scan", "inclusive_scan">> }

\* the data of a run: the functor, the initial value, the i-th source element
Data == {"plus_iota", "plus_ones", "concat_iota"}

OpOf(d) == IF d = "concat_iota" THEN "concat" ELSE "plus"

InitOf(d) == IF d = "concat_iota" THEN <<0>> ELSE IF d = "plus_ones" THEN 100 ELSE 0

Element(d, i) ==
  IF d = "concat_iota" THEN <<i + 1>>
  ELSE IF d = "plus_ones" THEN 1
  ELSE IF d = "plus_hundreds" THEN 100 ELSE i + 1

\* the input lengths of a group shape: the short ones and those around the tile
Lengths(W, G) == (0 .. MaxLen) \cup {W * G - 1, W * G, W * G + 1, 2 * W * G}

\* the inputs of a group shape: every length with the non-commutative functor,
\* [], [1] and [1,2,3,4,5] with plus from 0, 2*W*G ones with plus from 100
Inputs(W, G) ==
  {[data |-> "concat_iota", n |-> n] : n \in Lengths(W, G)}
    \cup {[data |-> "plus_iota", n |-> n] : n \in {0, 1, 5}}
    \cup {[data |-> "plus_ones", n |-> 2 * W * G]}

\* five tiles and a partial one, with the non-commutative functor, for the group
\* shapes of more than one worker and grain 2
FarInputs(W, G) ==
  IF W > 1 /\ G = 2 THEN {[data |-> "concat_iota", n |-> 5 * W * G + 3]} ELSE {}

Placements == {"static", "shared", "global"}

InitLocals ==
  /\ pc = [w \in Workers |-> "call"]
  /\ call = [w \in Workers |-> 1]
  /\ first = [w \in Workers |-> 0]
  /\ carry_in = [w \in Workers |-> Unwritten(binary_op)]
  /\ x = [w \in Workers |-> Unwritten(binary_op)]
  /\ local_inputs = [w \in Workers |-> [i \in 0 .. grainsize - 1 |-> Unwritten(binary_op)]]
  /\ small_x = [w \in Workers |-> Unwritten(binary_op)]
  /\ offset = [w \in Workers |-> 0]
  /\ ping = [w \in Workers |-> 0]
  /\ total = [w \in Workers |-> Unwritten(binary_op)]
  /\ access = [w \in Workers |-> NoAccess]
  /\ written = [c \in DOMAIN result |-> [i \in DOMAIN result[c] |-> 0]]
  /\ acquired = 0
  /\ released = 0

\* the group shapes <<W, G>> of the group sizes ws
Shapes(ws) == ws \X (1 .. MaxGrain)

\* a kernel calling the scans over source[0 .. n), the elements of type itype
\* and size_type with the largest value imax; inputs[<<W, G>>] are the inputs
\* of a group shape
InitKernel(shapes, kernels, places, inputs, itype, imax) ==
  \E W \in shapes, G \in 1 .. MaxGrain, k \in kernels, p \in places :
    \E in \in inputs[<<W, G>>] :
     LET d == in.data
         n == in.n
     IN
      /\ groupsize = W
      /\ grainsize = G
      /\ binary_op = OpOf(d)
      /\ init = InitOf(d)
      /\ last = n
      /\ source = [i \in 0 .. n - 1 |-> Element(d, i)]
      /\ calls = k
      /\ placement = p
      /\ cuda_arch = IF p = "static" THEN 130 ELSE 200
      /\ input_type = itype
      /\ int_max = imax
      /\ buffer = IF p = "static" THEN "static" ELSE "none"
      /\ sums = [i \in 0 .. 2 * W - 1 |-> Unwritten(OpOf(d))]
      /\ stage = [c \in 0 .. result_cells(itype) * W * G - 1 |-> Unwritten(OpOf(d))]
      /\ result = [c \in 1 .. Len(k) |-> [i \in 0 .. n + W * G - 1 |-> Untouched(OpOf(d))]]

\* the kernels with source and result of one type and the int of the platform:
\* every kernel with the static buffer, every kernel with a buffer from the
\* allocator in shared memory and the scan with an initial value with one in
\* global memory (groups of MallocGroupSizes), and the long input with the
\* static buffer
InitScan(places) ==
  \/ InitKernel(GroupSizes, Kernels, places \cap {"static"},
                [s \in Shapes(GroupSizes) |-> Inputs(s[1], s[2])], "same", 2147483647)
  \/ InitKernel(MallocGroupSizes, Kernels, places \ {"static", "global"},
                [s \in Shapes(MallocGroupSizes) |-> Inputs(s[1], s[2])], "same", 2147483647)
  \/ InitKernel(MallocGroupSizes, {<<"inclusive_scan">>}, places \cap {"global"},
                [s \in Shapes(MallocGroupSizes) |-> Inputs(s[1], s[2])], "same", 2147483647)
  \/ InitKernel(GroupSizes, {<<"inclusive_scan">>, <<"exclusive_scan", "inclusive_scan">>},
                places \cap {"static"},
                [s \in Shapes(GroupSizes) |-> FarInputs(s[1], s[2])], "same", 2147483647)

\* a kernel calling small_inplace_exclusive_scan_with_buffer over sums[0 .. W),
\* which holds the W values of source
InitSmall ==
  \E W \in SmallGroupSizes, d \in Data :
     LET v == [i \in 0 .. W - 1 |-> Element(d, i)]
     IN
      /\ groupsize = W
      /\ grainsize = 1
      /\ binary_op = OpOf(d)
      /\ init = InitOf(d)
      /\ last = W
      /\ source = v
      /\ calls = <<"small_scan">>
      /\ placement = "static"
      /\ cuda_arch = 130
      /\ input_type = "same"
      /\ int_max = 2147483647
      /\ buffer = "static"
      /\ sums = [i \in 0 .. 2 * W - 1 |-> IF i < W THEN v[i] ELSE Unwritten(OpOf(d))]
      /\ stage = [i \in 0 .. W - 1 |-> Unwritten(OpOf(d))]
      /\ result = [c \in 1 .. 1 |-> [i \in 0 .. W - 1 |-> Untouched(OpOf(d))]]

Init == (InitScan(Placements) \/ InitSmall) /\ InitLocals

\* ----------------------------------------------------------------- actions
\* the worker leaves the running call
Returned(w) ==
  /\ call' = [call EXCEPT ![w] = @ + 1]
  /\ pc' = [pc EXCEPT ![w] = IF call[w] = Len(calls) THEN "done" ELSE "call"]

Goto(w, label) == pc' = [pc EXCEPT ![w] = label] /\ UNCHANGED call

\* inclusive_scan / exclusive_scan with an initial value: entry
ScanCall(w) ==
  /\ pc[w] = "call"
  /\ Entry(w) \in {"inclusive_scan", "exclusive_scan"}
  /\ first' = [first EXCEPT ![w] = 0]
  /\ carry_in' = [carry_in EXCEPT ![w] = init]
  /\ Goto(w, "malloc")
  /\ UNCHANGED <<config, shared, x, local_inputs, small_x, offset, ping, total, history>>

\* the test admitting first = last
nonempty_or_end(f) == f <= last

\* line 265: first < last
nonempty(f) == f < last

\* the inner scan started at first instead of first + 1
seeded_first_same(f) == f

\* line 275: the inner scan of the overload without initial value starts at
\* first + 1 and result + 1
seeded_first(f) == f + 1

\* inclusive_scan without an initial value, lines 265-278
InclusiveScanNoInit(w) ==
  /\ pc[w] = "call"
  /\ Entry(w) = "inclusive_scan_noinit"
  /\ IF nonempty(0)
     THEN /\ carry_in' = [carry_in EXCEPT ![w] = SourceAt(0)]
          /\ result' = IF w = 0
                       THEN [result EXCEPT ![call[w]][0] = SourceAt(0)]
                       ELSE result
          /\ written' = IF w = 0
                        THEN [written EXCEPT ![call[w]][0] = @ + 1]
                        ELSE written
          /\ first' = [first EXCEPT ![w] = seeded_first(0)]
          /\ Goto(w, "malloc")
     ELSE /\ Returned(w)
          /\ UNCHANGED <<carry_in, result, written, first>>
  /\ UNCHANGED <<config, sums, stage, buffer, x, local_inputs, small_x, offset,
                 ping, total, access, acquired, released>>

\* a direct call of the small scan over sums with carry `init`
SmallScanCall(w) ==
  /\ pc[w] = "call"
  /\ Entry(w) = "small_scan"
  /\ carry_in' = [carry_in EXCEPT ![w] = init]
  /\ Goto(w, "s_init")
  /\ UNCHANGED <<config, shared, first, x, local_inputs, small_x, offset, ping, total,
                 history>>

\* bulk::malloc(g, bytes): one worker asks the allocator, whose answer every
\* worker receives after a barrier
bulk_malloc(tid, held, answer) == IF tid = 0 THEN answer ELSE held

\* bulk::free(g, pointer): one worker gives the block back
bulk_free(tid, held) == IF tid = 0 THEN "freed" ELSE held

\* lines 247-248 and 310-311: the static buffer of an entry point, named by the
\* line of its declaration; inclusive_scan and exclusive_scan each own one, and
\* the overload without initial value runs in inclusive_scan's
static_buffer(entry) == IF entry = "exclusive_scan" THEN 310 ELSE 247

\* worker tid is the first of the group to reach the buffer of its call, and
\* the call before it ran in another static buffer: nobody has written this one
\* (the workers left the other buffer at the barrier of its last copy)
never_written(tid) ==
  /\ call[tid] > 1
  /\ static_buffer(calls[call[tid]]) # static_buffer(calls[call[tid] - 1])
  /\ \A v \in Workers \ {tid} :
        \/ call[v] < call[tid]
        \/ call[v] = call[tid] /\ pc[v] \in {"call", "malloc"}

\* lines 233-234 (bulk::malloc) or 247-248, 310-311 (the static buffer of the
\* entry point: sums and stage are the buffer of the running call).  The block
\* the allocator answers is the one given back before, as it was left, or one
\* nobody has written
Malloc(w) ==
  /\ pc[w] = "malloc"
  /\ IF cuda_arch >= 200
     THEN /\ buffer' = bulk_malloc(w, buffer, placement)
          /\ acquired' = IF bulk_malloc(w, "none", "block") = "block"
                         THEN acquired + 1 ELSE acquired
          /\ Goto(w, "b_malloc")
          /\ \E reused \in BOOLEAN :
               IF bulk_malloc(w, "none", "block") = "block" /\ ~reused
               THEN /\ sums' = [i \in DOMAIN sums |-> Unwritten(binary_op)]
                    /\ stage' = [j \in DOMAIN stage |-> Unwritten(binary_op)]
               ELSE UNCHANGED <<sums, stage>>
     ELSE /\ UNCHANGED <<buffer, acquired>>
          /\ IF never_written(w)
             THEN /\ sums' = [i \in DOMAIN sums |-> Unwritten(binary_op)]
                  /\ stage' = [j \in DOMAIN stage |-> Unwritten(binary_op)]
             ELSE UNCHANGED <<sums, stage>>
          /\ Goto(w, "loop")
  /\ UNCHANGED <<config, result, locals, access, written, released>>

\* lines 143-148: the loop test and the collective copy into the stage.  The
\* locals of the loop body (local_inputs of line 151, x of line 158) are
\* objects of one iteration: none is alive here
TileLoop(w) ==
  /\ pc[w] \in {"loop", "next"}
  /\ x' = [x EXCEPT ![w] = Unwritten(binary_op)]
  /\ local_inputs' = [local_inputs EXCEPT ![w] =
                        [i \in 0 .. grainsize - 1 |-> Unwritten(binary_op)]]
  /\ LET f == IF pc[w] = "next" THEN advance(first[w]) ELSE first[w]
         psize == partition_size(f)
     IN /\ first' = [first EXCEPT ![w] = f]
        /\ IF more_tiles(f)
           THEN /\ stage' = [j \in DOMAIN stage |->
                               IF j \in copy_n_share(w, psize)
                               THEN SourceAt(f + j) ELSE stage[j]]
                /\ Touch(w, {}, Stage(copy_n_share(w, psize)))
                /\ Goto(w, "b_copy_in")
           ELSE /\ UNCHANGED <<stage, access>>
                /\ IF loop_exit(cuda_arch) = "free" THEN Goto(w, "free") ELSE Returned(w)
  /\ UNCHANGED <<config, sums, result, buffer, carry_in, small_x,
                 offset, ping, total, written, acquired, released>>

\* lines 151-177: the fused copy and accumulate, the worker's sum; local_inputs
\* and x are declared in the loop body without initializer, new in every tile
Fold(w) ==
  /\ pc[w] = "fold"
  /\ LET psize == partition_size(first[w])
         n == valid(w, psize)
         li == [i \in 0 .. grainsize - 1 |->
                  IF local_offset(w) + i \in slice(w, psize)
                  THEN stage[local_offset(w) + i] ELSE Unwritten(binary_op)]
     IN \E held \in (IF n = 0 /\ local_size(w, psize) # 0
                     THEN Reads(Unwritten(binary_op)) ELSE {Unwritten(binary_op)}) :
        LET xv == IF n > 0 THEN accumulate(li, n) ELSE held
        IN
        /\ local_inputs' = [local_inputs EXCEPT ![w] = li]
        /\ x' = [x EXCEPT ![w] = xv]
        /\ sums' = IF local_size(w, psize) # 0
                   THEN [sums EXCEPT ![w] = xv] ELSE sums
        /\ Touch(w, Stage(slice(w, psize)),
                 IF local_size(w, psize) # 0 THEN Sums({w}) ELSE {})
        /\ Goto(w, fold_exit(local_size(w, psize)))
  /\ UNCHANGED <<config, stage, result, buffer, first, carry_in, small_x, offset,
                 ping, total, written, acquired, released>>

\* lines 43-55 of the small scan
SmallInit(w) ==
  /\ pc[w] = "s_init"
  /\ \E held \in Reads(sums[w]) :
       LET s == IF w = 0 THEN [sums EXCEPT ![0] = BinaryOp(carry_in[w], held)]
                ELSE [sums EXCEPT ![w] = held]
       IN /\ sums' = s
          /\ small_x' = [small_x EXCEPT ![w] = s[w]]
  /\ Touch(w, Sums({w}), IF w = 0 THEN Sums({0}) ELSE {})
  /\ ping' = [ping EXCEPT ![w] = 0]
  /\ offset' = [offset EXCEPT ![w] = 1]
  /\ Goto(w, "b_55")
  /\ UNCHANGED <<config, stage, result, buffer, first, carry_in, x, local_inputs, total,
                 written, acquired, released>>

\* lines 57-68: one round
SmallRound(w) ==
  /\ pc[w] = "s_round"
  /\ more_rounds(offset[w])
  /\ LET back == IF w >= offset[w] THEN sums[Slot(ping[w], w - offset[w])]
                 ELSE small_x[w]
         xv == round_x(w, offset[w], back, small_x[w])
         p == swap(ping[w])
     IN /\ small_x' = [small_x EXCEPT ![w] = xv]
        /\ ping' = [ping EXCEPT ![w] = p]
        /\ sums' = [sums EXCEPT ![Slot(p, w)] = xv]
        /\ Touch(w, IF w >= offset[w] THEN Sums({Slot(ping[w], w - offset[w])}) ELSE {},
                 Sums({Slot(p, w)}))
  /\ offset' = [offset EXCEPT ![w] = next_offset(offset[w])]
  /\ Goto(w, "b_68")
  /\ UNCHANGED <<config, stage, result, buffer, first, carry_in, x, local_inputs, total,
                 written, acquired, released>>

\* lines 71-75: the total and the value one position back
SmallTotal(w) ==
  /\ pc[w] = "s_round"
  /\ ~ more_rounds(offset[w])
  /\ total' = [total EXCEPT ![w] = sums[Slot(ping[w], total_index(groupsize))]]
  /\ small_x' = [small_x EXCEPT ![w] =
                   exclusive_x(w, carry_in[w],
                               IF w = 0 THEN carry_in[w] ELSE sums[Slot(ping[w], w - 1)])]
  /\ Touch(w, Sums({Slot(ping[w], total_index(groupsize))}
                    \cup (IF w = 0 THEN {} ELSE {Slot(ping[w], w - 1)})), {})
  /\ Goto(w, "b_75")
  /\ UNCHANGED <<config, shared, first, carry_in, x, local_inputs, offset, ping,
                 written, acquired, released>>

\* lines 77-79: the write back
SmallWrite(w) ==
  /\ pc[w] = "s_write"
  /\ sums' = [sums EXCEPT ![w] = small_x[w]]
  /\ Touch(w, {}, Sums({w}))
  /\ Goto(w, "b_79")
  /\ UNCHANGED <<config, stage, result, buffer, locals, written, acquired, released>>

\* line 81 for a direct call: the total is returned
SmallReturn(w) ==
  /\ pc[w] = "scan"
  /\ Entry(w) = "small_scan"
  /\ carry_in' = [carry_in EXCEPT ![w] = total[w]]
  /\ Returned(w)
  /\ UNCHANGED <<config, shared, first, x, local_inputs, small_x, offset, ping, total,
                 history>>

\* lines 180-208: the carry of the next tile and the worker's scan of its slice
Scan(w) ==
  /\ pc[w] = "scan"
  /\ Entry(w) # "small_scan"
  /\ carry_in' = [carry_in EXCEPT ![w] = next_carry(total[w], carry_in[w])]
  /\ LET psize == partition_size(first[w])
         n == valid(w, psize)
         lo == local_offset(w)
         inc == Inclusive(Entry(w))
         x0 == IF local_size(w, psize) # 0 THEN to_input(sums[w]) ELSE x[w]
         li == local_inputs[w]
         cells == result_cells(input_type)
     IN /\ stage' = [c \in DOMAIN stage |->
                       LET j == c \div cells
                       IN IF j \in slice(w, psize)
                          THEN results_cell(scan_store(inc, scan_x(inc, x0, li, j - lo),
                                                       li[j - lo]), c % cells)
                          ELSE stage[c]]
        /\ x' = [x EXCEPT ![w] = scan_x(inc, x0, li, n)]
        /\ Touch(w, IF local_size(w, psize) # 0 THEN Sums({w}) ELSE {},
                 Results(slice(w, psize)))
  /\ Goto(w, scan_wait(w))
  /\ UNCHANGED <<config, sums, result, buffer, first, local_inputs, small_x, offset,
                 ping, total, written, acquired, released>>

\* line 210: the collective copy of the results to the destination
CopyOut(w) ==
  /\ pc[w] = "copy_out"
  /\ LET psize == partition_size(first[w])
     IN /\ result' = [result EXCEPT ![call[w]] =
                     [j \in DOMAIN @ |->
                        IF j - first[w] \in copy_n_share(w, psize)
                        THEN results_load(stage, j - first[w]) ELSE @[j]]]
        /\ written' = [written EXCEPT ![call[w]] =
                         [j \in DOMAIN @ |->
                            IF j - first[w] \in copy_n_share(w, psize)
                            THEN @[j] + 1 ELSE @[j]]]
        /\ Touch(w, Results(copy_n_share(w, psize)), {})
  /\ Goto(w, "b_copy_out")
  /\ UNCHANGED <<config, sums, stage, buffer, locals, acquired, released>>

\* lines 245 / 308: bulk::free, entered by every worker
Free(w) ==
  /\ pc[w] = "free"
  /\ Goto(w, "b_free")
  /\ UNCHANGED <<config, shared, locals, history>>

\* bulk::free: worker 0 gives the buffer back
Release(w) ==
  /\ pc[w] = "release"
  /\ buffer' = bulk_free(w, buffer)
  /\ released' = IF bulk_free(w, "block") = "freed" THEN released + 1 ELSE released
  /\ Returned(w)
  /\ UNCHANGED <<config, sums, stage, result, locals, access, written, acquired>>

\* the program points where a worker waits in a barrier: g.wait() of lines 55,
\* 68, 75, 79, 177, 208, and the barriers inside copy_n, malloc and free
Waits ==
  {"b_malloc", "b_copy_in", "b_177", "b_55", "b_68", "b_75", "b_79", "b_208",
   "b_copy_out", "b_free"}

\* where a worker continues after the barrier it waits in
After(label) ==
  CASE label = "b_malloc" -> "loop"
    [] label = "b_copy_in" -> "fold"
    [] label = "b_177" -> "s_init"
    [] label = "b_55" -> "s_round"
    [] label = "b_68" -> "s_round"
    [] label = "b_75" -> "s_write"
    [] label = "b_79" -> "scan"
    [] label = "b_208" -> "copy_out"
    [] label = "b_copy_out" -> "next"
    [] label = "b_free" -> "release"

\* the barrier opens once every worker of the group waits in one
barrier_open == \A w \in Workers : pc[w] \in Waits

Barrier ==
  /\ barrier_open
  /\ pc' = [w \in Workers |-> After(pc[w])]
  /\ access' = [w \in Workers |-> NoAccess]
  /\ UNCHANGED <<config, shared, call, locals, written, acquired, released>>

Next ==
  \/ \E w \in Workers : ScanCall(w)
  \/ \E w \in Workers : InclusiveScanNoInit(w)
  \/ \E w \in Workers : SmallScanCall(w)
  \/ \E w \in Workers : Malloc(w)
  \/ \E w \in Workers : TileLoop(w)
  \/ \E w \in Workers : Fold(w)
  \/ \E w \in Workers : SmallInit(w)
  \/ \E w \in Workers : SmallRound(w)
  \/ \E w \in Workers : SmallTotal(w)
  \/ \E w \in Workers : SmallWrite(w)
  \/ \E w \in Workers : SmallReturn(w)
  \/ \E w \in Workers : Scan(w)
  \/ \E w \in Workers : CopyOut(w)
  \/ \E w \in Workers : Free(w)
  \/ \E w \in Workers : Release(w)
  \/ Barrier

Spec == Init /\ [][Next]_vars

\* the scheduler runs every worker that can take a step, and the barrier opens
\* once all have arrived
FairSpec == Spec /\ WF_vars(Next)

\* ---------------------------------------------- the allocator out of memory
\* program points of the tile loop, where the scratch buffer is accessed
TileLabels ==
  {"b_copy_in", "fold", "b_177", "s_init", "b_55", "s_round", "b_68", "b_75",
   "s_write", "b_79", "scan", "b_208", "copy_out", "b_copy_out", "next"}

\* an access through the null pointer bulk::malloc answered is undefined: it
\* may end the kernel, or go through as any access does (the steps of Next)
Fault ==
  /\ buffer = "null"
  /\ \E w \in Workers : pc[w] \in TileLabels
  /\ pc' = [w \in Workers |-> "fault"]
  /\ UNCHANGED <<config, shared, call, locals, history>>

InitExhaust == (InitScan({"null"}) \/ InitSmall) /\ InitLocals

NextExhaust == Next \/ Fault

SpecExhaust == InitExhaust /\ [][NextExhaust]_vars

AllDone == \A w \in Workers : pc[w] = "done"

\* ------------------------------------------------------------------ claims
\* every worker has returned from the k-th call of the kernel
Finished(k) == \A w \in Workers : call[w] > k

\* fold(binary_op, source[lo ..= hi]), combined in source order
RECURSIVE FoldElems(_, _)
FoldElems(lo, hi) ==
  IF lo = hi THEN source[lo] ELSE BinaryOp(FoldElems(lo, hi - 1), source[hi])

\* the positions of the input
Positions == 0 .. last - 1

\* the destination of the k-th call over the positions of the input
Output(k) == [i \in Positions |-> result[k][i]]

\* C1: once every worker has returned from inclusive_scan with an initial
\* value, the destination holds at every position i the value
\* binary_op(init, fold(source[0 ..= i])), operands in source order, for every
\* group shape, length and interleaving; [1,2,3,4,5] with plus from 0 gives
\* [1,3,6,10,15].
C1_InclusiveScan ==
  \A k \in DOMAIN calls :
    (calls[k] = "inclusive_scan" /\ Finished(k)) =>
      /\ \A i \in Positions : result[k][i] = BinaryOp(init, FoldElems(0, i))
      /\ (binary_op = "plus" /\ init = 0 /\ last = 5 /\ source[4] = 5) =>
           Output(k) = [i \in 0 .. 4 |-> <<1, 3, 6, 10, 15>>[i + 1]]

\* an inclusive scan of five full tiles and a partial one by four workers with
\* the non-commutative functor has returned
C1_Witness ==
  /\ calls = <<"inclusive_scan">>
  /\ Finished(1)
  /\ binary_op = "concat"
  /\ groupsize = 4
  /\ grainsize = 2
  /\ last = 5 * elements_per_group + 3
  /\ result[1][last - 1] = BinaryOp(init, FoldElems(0, last - 1))

\* C2: once every worker has returned from exclusive_scan, the destination
\* holds init at position 0 and binary_op(init, fold(source[0 .. i))) at every
\* position i >= 1; [1,2,3,4,5] with plus from 0 gives [0,1,3,6,10].
C2_ExclusiveScan ==
  \A k \in DOMAIN calls :
    (calls[k] = "exclusive_scan" /\ Finished(k)) =>
      /\ \A i \in Positions :
           result[k][i] = IF i = 0 THEN init ELSE BinaryOp(init, FoldElems(0, i - 1))
      /\ (binary_op = "plus" /\ init = 0 /\ last = 5 /\ source[4] = 5) =>
           Output(k) = [i \in 0 .. 4 |-> <<0, 1, 3, 6, 10>>[i + 1]]

\* an exclusive scan over a full tile and one more element has returned
C2_Witness ==
  /\ calls[1] = "exclusive_scan"
  /\ Finished(1)
  /\ binary_op = "concat"
  /\ groupsize = 2
  /\ last = elements_per_group + 1
  /\ result[1][0] = init
  /\ result[1][last - 1] = BinaryOp(init, FoldElems(0, last - 2))

\* C3: inclusive_scan without an initial value: slot 0 of the destination
\* never holds anything but its old content or a verbatim copy of source[0];
\* once every worker has returned it holds source[0], every position i >= 1
\* holds the fold of source[0 ..= i] with nothing else combined in, and no
\* slot beyond the input is written (for N = 1 exactly one slot).
C3_InclusiveScanNoInit ==
  \A k \in DOMAIN calls :
    (calls[k] = "inclusive_scan_noinit" /\ last > 0) =>
      /\ result[k][0] \in {Untouched(binary_op), source[0]}
      /\ Finished(k) =>
           /\ \A i \in Positions : result[k][i] = FoldElems(0, i)
           /\ \A j \in DOMAIN result[k] :
                j >= last => result[k][j] = Untouched(binary_op)

\* the overload without initial value has returned from an input of one element
C3_Witness ==
  /\ calls = <<"inclusive_scan_noinit">>
  /\ Finished(1)
  /\ binary_op = "concat"
  /\ groupsize = 2
  /\ last = 1
  /\ result[1][0] = source[0]

\* the sequential scan: init followed by the first i elements, left to right
RECURSIVE running(_)
running(i) == IF i = 0 THEN init ELSE BinaryOp(running(i - 1), source[i - 1])

\* C4: tiling transparency: the destination of a finished scan with an
\* initial value is the sequential scan of the input, a value that does not
\* depend on the worker count, the grain or the place of the length relative to
\* the tile size W*G.
C4_TilingTransparency ==
  \A k \in DOMAIN calls :
    (calls[k] \in {"inclusive_scan", "exclusive_scan"} /\ Finished(k)) =>
      Output(k) = [i \in Positions |->
                     IF Inclusive(calls[k]) THEN running(i + 1) ELSE running(i)]

\* a scan has returned from an input of one element more than a tile
C4_Witness ==
  /\ calls = <<"exclusive_scan", "inclusive_scan">>
  /\ Finished(2)
  /\ groupsize = 4
  /\ elements_per_group > 1
  /\ last = elements_per_group + 1
  /\ binary_op = "concat"
  /\ result[2][last - 1] = running(last)

\* C5: exclusive_scan and inclusive_scan run with the same arguments:
\* binary_op(exclusive result[i], source[i]) is the inclusive result[i] at
\* every position.
C5_ModeRelation ==
  (calls = <<"exclusive_scan", "inclusive_scan">> /\ Finished(2)) =>
    \A i \in Positions : BinaryOp(result[1][i], source[i]) = result[2][i]

\* both scans of an input of two tiles have returned
C5_Witness ==
  /\ calls = <<"exclusive_scan", "inclusive_scan">>
  /\ Finished(2)
  /\ last = 2 * elements_per_group
  /\ binary_op = "plus"
  /\ init = 100
  /\ BinaryOp(result[1][last - 1], source[last - 1]) = result[2][last - 1]

\* the group size is a power of two
PowerOfTwo(n) == \E e \in 0 .. n : 2 ^ e = n

\* C6: small_inplace_exclusive_scan_with_buffer over W values, W a power of
\* two: every worker that has returned got binary_op(init, fold(all W
\* values)), and by then first[0] is init and first[i], i > 0, is
\* binary_op(init, fold(values[0 .. i))), whatever the interleaving.
C6_SmallScan ==
  (calls = <<"small_scan">> /\ PowerOfTwo(groupsize)) =>
    \A w \in Workers :
      call[w] > 1 =>
        /\ carry_in[w] = BinaryOp(init, FoldElems(0, groupsize - 1))
        /\ \A i \in Workers :
             sums[i] = IF i = 0 THEN init ELSE BinaryOp(init, FoldElems(0, i - 1))

\* four workers (a power of two) have returned from the small scan of four
\* values under the non-commutative functor: each got the fold of all four
\* after init, and first holds the exclusive prefixes
C6_Witness ==
  /\ calls = <<"small_scan">>
  /\ groupsize = 4
  /\ PowerOfTwo(groupsize)
  /\ binary_op = "concat"
  /\ Finished(1)
  /\ \A w \in Workers : carry_in[w] = <<0, 1, 2, 3, 4>>
  /\ sums[0] = <<0>>
  /\ sums[3] = <<0, 1, 2, 3>>

\* C7: with an empty input no worker of inclusive_scan (either overload) or
\* exclusive_scan enters a tile iteration, no destination slot is written, no
\* source element is staged, the overload without initial value does not even
\* acquire a buffer, and every worker can go on until it has returned.
C7_EmptyInput ==
  (last = 0 /\ calls # <<"small_scan">>) =>
    /\ \A w \in Workers : pc[w] \notin TileLabels
    /\ \A k \in DOMAIN calls :
         \A j \in DOMAIN result[k] : result[k][j] = Untouched(binary_op)
    /\ \A j \in DOMAIN stage : stage[j] = Unwritten(binary_op)
    /\ calls = <<"inclusive_scan_noinit">> =>
         /\ \A w \in Workers : pc[w] \in {"call", "done"}
         /\ buffer = placement => placement = "static"
    /\ AllDone \/ ENABLED Next

\* both scans of an empty input have returned and the buffer was given back
C7_Witness ==
  /\ last = 0
  /\ calls = <<"exclusive_scan", "inclusive_scan">>
  /\ groupsize = 2
  /\ AllDone
  /\ buffer = "freed"

\* C8: barrier convergence: two workers waiting in a barrier wait at the same
\* program point of the same call, tile and round; no worker has finished
\* while another waits; and some worker can always take a step until all are
\* done, so no worker waits for one that never arrives.
C8_BarrierConvergence ==
  /\ \A v \in Workers, w \in Workers :
       (pc[v] \in Waits /\ pc[w] \in Waits) =>
         /\ pc[v] = pc[w]
         /\ call[v] = call[w]
         /\ first[v] = first[w]
         /\ offset[v] = offset[w]
  /\ \A v \in Workers, w \in Workers : pc[v] \in Waits => pc[w] # "done"
  /\ AllDone \/ ENABLED Next

\* all four workers wait in a round of the small scan of a partial second tile
\* in which the last worker has no element
C8_Witness ==
  /\ groupsize = 4
  /\ \A w \in Workers : pc[w] = "b_68"
  /\ first[0] > 0
  /\ partition_size(first[0]) < elements_per_group
  /\ local_size(3, partition_size(first[0])) = 0
  /\ local_size(0, partition_size(first[0])) > 0

\* the position the tile loop of the last call started from, and the tiles
\* its range needs
LoopStart == IF calls = <<"inclusive_scan_noinit">> /\ last > 0 THEN 1 ELSE 0
TilesDue == (last - LoopStart + elements_per_group - 1) \div elements_per_group

\* C9: under a fair scheduler every worker eventually returns, having run
\* exactly ceil(N / (W*G)) tile iterations over the N elements of the scanned
\* range.
C9_Termination ==
  <>(/\ AllDone
     /\ calls # <<"small_scan">> =>
          \A w \in Workers : first[w] = LoopStart + TilesDue * elements_per_group)

\* every worker has returned from a scan of five full tiles and a partial one
C9_Witness ==
  /\ AllDone
  /\ calls = <<"inclusive_scan">>
  /\ groupsize = 2
  /\ last = 5 * elements_per_group + 3
  /\ TilesDue = 6
  /\ \A w \in Workers : first[w] = 6 * elements_per_group

\* C10: when the allocator cannot supply the scratch buffer the call is
\* aborted: no worker runs the tile loop against the failed buffer and no
\* destination slot is written by the scan.
C10_ExhaustionAborts ==
  \A k \in DOMAIN calls :
    (calls[k] \in {"inclusive_scan", "exclusive_scan"} /\ buffer = "null") =>
      /\ \A w \in Workers : call[w] = k => pc[w] \notin TileLabels
      /\ \A j \in DOMAIN result[k] : result[k][j] = Untouched(binary_op)

\* the scans with an initial value among the first c calls of the kernel (the
\* overload without one enters its scan only for a non-empty range)
ScansIn(c) == IF calls = <<"inclusive_scan_noinit">> /\ last = 0 THEN 0 ELSE c

\* the buffer is held: acquired and not yet given back
Held == buffer \in {"shared", "global"}

\* C11: where the buffer is allocated at run time, every scan with an initial
\* value acquires one buffer before its first tile is staged and gives that
\* buffer back once after the copy out of its last tile, for every length
\* (the empty one too) and either placement; no worker is in the tile loop or
\* has touched the buffer while it is not held.
C11_BufferLifecycle ==
  cuda_arch >= 200 =>
    /\ released = ScansIn(call[0] - 1)
    /\ acquired \in {released, released + 1}
    /\ Held <=> acquired = released + 1
    /\ Held => buffer = placement
    /\ \A w \in Workers :
         (pc[w] \in TileLabels \/ access[w] # NoAccess) =>
           /\ Held
           /\ acquired = call[w]
    /\ \A k \in DOMAIN calls : Finished(k) => released >= ScansIn(k)
    /\ AllDone => (acquired = ScansIn(Len(calls)) /\ ~ Held)

\* both scans of an input of a tile and one element more have returned, each
\* having acquired a buffer in shared memory and given it back
C11_Witness ==
  /\ calls = <<"exclusive_scan", "inclusive_scan">>
  /\ placement = "shared"
  /\ AllDone
  /\ last = elements_per_group + 1
  /\ acquired = 2
  /\ released = 2
  /\ buffer = "freed"

\* the slots of sums of the buffer p (0: first, 1: buffer)
Half(p) == Sums({Slot(p, i) : i \in Workers})

\* no slot of the region written by one worker is read or written by another
\* between two barriers
RaceFree(region) ==
  \A v \in Workers, w \in Workers :
    v # w => access[v].wr \cap (access[w].rd \cup access[w].wr) \cap region = {}

\* C12: the small scan is free of races: between two barriers no slot of sums
\* (either half) is written by one worker and read or written by another; the
\* initial fold writes first[0] only, by worker 0, and every worker reads its
\* own slot; in a round every worker reads only the half that holds the
\* current values and writes only its own slot of the other half; the read of
\* the total and of the predecessor writes nothing; the write back writes the
\* worker's own slot of first.
C12_SmallScanRaceFree ==
  /\ RaceFree(Half(0) \cup Half(1))
  /\ \A w \in Workers :
       /\ pc[w] = "b_55" =>
            /\ access[w].wr = (IF w = 0 THEN Sums({0}) ELSE {})
            /\ access[w].rd = Sums({w})
       /\ pc[w] = "b_68" =>
            /\ access[w].wr = Sums({Slot(ping[w], w)})
            /\ access[w].rd \subseteq Half(1 - ping[w])
       /\ pc[w] = "b_75" =>
            /\ access[w].wr = {}
            /\ access[w].rd \subseteq Half(ping[w])
       /\ pc[w] = "b_79" => access[w] = [rd |-> {}, wr |-> Sums({w})]

\* all seven workers have run the round of offset 2 of a small scan: the last
\* one has read slot 4 of one half and written slot 6 of the other
C12_Witness ==
  /\ calls = <<"small_scan">>
  /\ groupsize = 7
  /\ \A w \in Workers : pc[w] = "b_68" /\ offset[w] = 4
  /\ access[6].rd = Sums({Slot(1 - ping[6], 4)})
  /\ access[6].wr = Sums({Slot(ping[6], 6)})

\* what a worker at a program point does, or has just done, with the stage
StagePhase(label) ==
  CASE label = "b_copy_in" -> "copy_in"
    [] label \in {"fold", "b_177"} -> "inputs"
    [] label \in {"scan", "b_208"} -> "results"
    [] label \in {"copy_out", "b_copy_out"} -> "copy_out"
    [] label \in {"s_init", "b_55", "s_round", "b_68", "b_75", "s_write", "b_79"} -> "sums"
    [] OTHER -> "outside"

\* the part of an access set that lies in the stage
InStage(locs) == locs \cap Stage(DOMAIN stage)

\* C13: the phases of the stage are separated by barriers: while a worker
\* reads its inputs, runs the small scan, writes its results or copies them
\* out, every worker of the group is in that same phase of the same tile, so
\* the stage is not read as results before every result is written, and no
\* result is written while inputs of the tile are still unread; a worker
\* filling the stage for a tile meets only workers that fill it too or are
\* about to; within a phase no position is written by one worker and touched
\* by another, the copy in only writes the stage, the input phase only reads
\* it, the result phase only writes it and the copy out only reads it.
C13_StagePhases ==
  /\ RaceFree(Stage(DOMAIN stage))
  /\ calls # <<"small_scan">> =>
       \A v \in Workers, w \in Workers :
         LET P == StagePhase(pc[w])
         IN /\ P \in {"inputs", "sums", "results", "copy_out"} =>
                 /\ StagePhase(pc[v]) = P
                 /\ call[v] = call[w]
                 /\ first[v] = first[w]
            /\ P = "copy_in" => StagePhase(pc[v]) \in {"copy_in", "outside"}
  /\ \A w \in Workers :
       /\ pc[w] = "b_copy_in" => InStage(access[w].rd) = {}
       /\ pc[w] = "b_177" => InStage(access[w].wr) = {}
       /\ pc[w] = "b_208" => InStage(access[w].rd) = {}
       /\ pc[w] = "b_copy_out" => InStage(access[w].wr) = {}
       /\ StagePhase(pc[w]) = "sums" => InStage(access[w].rd \cup access[w].wr) = {}

\* the second tile: one worker has overwritten its share of the stage with the
\* next inputs while the other, past the copy out of the first tile, has not
\* begun to
C13_Witness ==
  /\ groupsize = 2
  /\ grainsize = 2
  /\ pc[0] = "b_copy_in"
  /\ pc[1] = "next"
  /\ first[0] = elements_per_group
  /\ first[1] = 0
  /\ access[0].wr = Stage(copy_n_share(0, partition_size(first[0])))
  /\ access[0].wr # {}

\* the carry a tile starting at position f is entered with: the initial value
\* of the scan followed by every element before f (the overload without an
\* initial value scans from position 1 with source[0] as initial value)
CarryAt(f) ==
  IF calls = <<"inclusive_scan_noinit">> THEN FoldElems(0, f - 1) ELSE running(f)

\* program points of a tile iteration before line 180 assigns the carry
BeforeCarry ==
  {"b_copy_in", "fold", "b_177", "s_init", "b_55", "s_round", "b_68", "b_75",
   "s_write", "b_79", "scan"}

\* C14: in a tile iteration every worker's carry_in is, up to the assignment of
\* line 180, the initial value followed by all elements before the tile, the
\* same for every worker; tiles start at multiples of W*G in increasing
\* order; from line 180 on the carry is the total the small scan of this tile
\* returned, and after a full tile that is the carry of the next; 2*W*G ones
\* with plus from 100 leave 100 + 2*W*G - 1 in the last slot of the exclusive
\* scan.
C14_CarryInvariant ==
  /\ calls # <<"small_scan">> =>
       \A w \in Workers :
         /\ pc[w] \in TileLabels => (first[w] - LoopStart) % elements_per_group = 0
         /\ pc[w] \in BeforeCarry => carry_in[w] = CarryAt(first[w])
         /\ pc[w] \in TileLabels \ BeforeCarry =>
              /\ carry_in[w] = total[w]
              /\ partition_size(first[w]) = elements_per_group =>
                   carry_in[w] = CarryAt(advance(first[w]))
  /\ \A k \in DOMAIN calls :
       (/\ calls[k] = "exclusive_scan"
        /\ Finished(k)
        /\ binary_op = "plus"
        /\ init = 100
        /\ last = 2 * elements_per_group
        /\ \A i \in Positions : source[i] = 1) =>
         result[k][last - 1] = 100 + 2 * elements_per_group - 1

\* four workers with two elements each: the exclusive scan of sixteen ones from
\* 100 has left 115 in the last slot, and worker 0 is in the second tile of the
\* inclusive scan with the carry 108
C14_Witness ==
  /\ groupsize = 4
  /\ grainsize = 2
  /\ binary_op = "plus"
  /\ init = 100
  /\ last = 16
  /\ Finished(1)
  /\ result[1][15] = 115
  /\ pc[0] = "fold"
  /\ first[0] = 8
  /\ carry_in[0] = 108

\* the value the scan of the k-th call is to leave at position j
DestValue(k, j) ==
  IF calls[k] = "inclusive_scan_noinit" THEN FoldElems(0, j)
  ELSE IF Inclusive(calls[k]) THEN running(j + 1) ELSE running(j)

\* worker w has no element in the tile it is in
Idle(w) == local_size(w, partition_size(first[w])) = 0

\* C15: a worker without elements in a partial tile stores no sum (its slot
\* of sums keeps a stale or never written value, which the small scan
\* combines like any other) and writes no result into the stage; whatever
\* the slot held (Indeterminate stands for every value it can hold), no value
\* computed from it is ever in the stage or in the destination, every
\* destination slot a worker has just copied out holds exactly the scan of
\* the real elements, and no slot at or after N is ever written.
C15_IdleWorkers ==
  calls # <<"small_scan">> =>
    /\ \A c \in DOMAIN stage : stage[c] # Indeterminate(binary_op)
    /\ \A k \in DOMAIN calls :
         \A j \in DOMAIN result[k] : result[k][j] # Indeterminate(binary_op)
    /\ \A w \in Workers :
         Idle(w) =>
           /\ pc[w] = "b_177" => access[w] = NoAccess
           /\ pc[w] = "b_208" => access[w] = NoAccess
           /\ pc[w] = "b_55" => small_x[w] = sums[w]
    /\ \A w \in Workers :
         pc[w] = "b_copy_out" =>
           \A j \in copy_n_share(w, partition_size(first[w])) :
             result[call[w]][first[w] + j] = DestValue(call[w], first[w] + j)
    /\ \A k \in DOMAIN calls :
         \A j \in DOMAIN result[k] :
           result[k][j] # Untouched(binary_op) => j < last

\* four workers have returned from the scan of two elements: workers 2 and 3
\* had none, what their never written slots of sums held, of which nothing is
\* known, went into the total the small scan returned, and the destination
\* holds the scan of the two elements
C15_Witness ==
  /\ calls = <<"inclusive_scan">>
  /\ groupsize = 4
  /\ grainsize = 1
  /\ last = 2
  /\ binary_op = "concat"
  /\ AllDone
  /\ carry_in[0] = Indeterminate(binary_op)
  /\ sums[2] = <<0, 1, 2>>
  /\ sums[3] = Indeterminate(binary_op)
  /\ Output(1) = [i \in 0 .. 1 |-> <<<<0, 1>>, <<0, 1, 2>>>>[i + 1]]

\* ------------------------------------------- a source narrower than the result
\* the inputs of the narrow source: elements of 100, which fit an unsigned
\* char while their sums from the third on do not
NarrowInputs ==
  [s \in Shapes({1, 2}) |-> {[data |-> "plus_hundreds", n |-> n] : n \in 0 .. MaxLen + 2}]

\* short inputs of the wide source
ShortInputs ==
  [s \in Shapes({2}) |-> {[data |-> "concat_iota", n |-> n] : n \in 0 .. MaxLen}]

\* the scans with an initial value over unsigned char elements with
\* thrust::plus<int> (intermediate_type int), next to the kernels whose
\* template arguments leave one type only
InitNarrow ==
  /\ \/ InitKernel({1, 2}, {<<"inclusive_scan">>, <<"exclusive_scan", "inclusive_scan">>},
                   {"static", "shared"}, NarrowInputs, "unsigned char", 2147483647)
     \/ InitKernel({2}, {<<"inclusive_scan_noinit">>}, {"static"}, ShortInputs,
                   "same", 2147483647)
     \/ InitSmall
  /\ InitLocals

SpecNarrow == InitNarrow /\ [][Next]_vars

\* C16: with a source type narrower than the result type the sum a worker
\* stores for its slice is the fold of the slice computed in the result
\* type, and every destination element of a finished scan equals the scan
\* computed entirely in the result type.
C16_ResultTypePrecision ==
  input_type # "same" =>
    /\ \A w \in Workers :
         (pc[w] = "b_177" /\ ~ Idle(w)) =>
           sums[w] = FoldElems(first[w] + local_offset(w),
                               first[w] + local_offset(w)
                                 + local_size(w, partition_size(first[w])) - 1)
    /\ \A k \in DOMAIN calls :
         Finished(k) => \A i \in Positions : result[k][i] = DestValue(k, i)

\* clamp(G, 0, n): n limited to 0 .. G
Clamp(G, lo, n) == IF n < lo THEN lo ELSE IF n > G THEN G ELSE n

\* the slice [index*G, index*G + localSize) of a worker in a tile of psize elements
Owned(index, psize) ==
  {j \in 0 .. elements_per_group - 1 :
     /\ j >= index * grainsize
     /\ j < index * grainsize + Clamp(grainsize, 0, psize - index * grainsize)}

\* C17: in every tile worker `index` reads as inputs and writes as results
\* exactly the stage positions [index*G, index*G + localSize), localSize =
\* clamp(G, 0, partition_size - index*G), which is the code's local_size; the
\* slices of two workers are disjoint, together they are [0, partition_size),
\* worker 0 has at least one element, and the workers with elements form a
\* prefix of the index range.
C17_SliceOwnership ==
  calls # <<"small_scan">> =>
    /\ \A w \in Workers :
         pc[w] \in TileLabels =>
           LET psize == partition_size(first[w])
           IN /\ local_size(w, psize) = Clamp(grainsize, 0, psize - w * grainsize)
              /\ slice(w, psize) = Owned(w, psize)
              /\ pc[w] = "b_177" => InStage(access[w].rd) = Stage(Owned(w, psize))
              /\ pc[w] = "b_208" => InStage(access[w].wr) = Stage(Owned(w, psize))
    /\ \A psize \in {partition_size(first[w]) : w \in {v \in Workers : pc[v] \in TileLabels}} :
         /\ \A v \in Workers, w \in Workers :
              v < w => /\ slice(v, psize) \cap slice(w, psize) = {}
                       /\ local_size(w, psize) > 0 => local_size(v, psize) > 0
         /\ UNION {slice(v, psize) : v \in Workers} = 0 .. psize - 1
         /\ local_size(0, psize) >= 1

\* the last tile of 43 elements, three of them for four workers of grain 2:
\* worker 0 has written positions 0 and 1, worker 1 position 2, workers 2 and
\* 3 nothing
C17_Witness ==
  /\ groupsize = 4
  /\ grainsize = 2
  /\ last = 43
  /\ \A w \in Workers : pc[w] = "b_208" /\ first[w] = 40
  /\ access[0].wr = Stage({0, 1})
  /\ access[1].wr = Stage({2})
  /\ access[2].wr = {}
  /\ access[3].wr = {}

\* ------------------------------------------------ lengths beyond size_type
\* lengths up to the largest size_type and above it
LongInputs ==
  [s \in Shapes({1, 2}) |->
     {[data |-> "concat_iota", n |-> n] :
        n \in (0 .. MaxLen) \cup {ShortIntMax, ShortIntMax + 1, ShortIntMax + 5,
                                  2 * ShortIntMax + 2, 2 * ShortIntMax + 6}}
       \cup {[data |-> "plus_ones", n |-> ShortIntMax + 1]}]

\* the scans run where size_type is short
InitInt ==
  /\ \/ InitKernel({1, 2}, Kernels, {"static", "shared"}, LongInputs, "same", ShortIntMax)
     \/ InitSmall
  /\ InitLocals

SpecInt == InitInt /\ [][Next]_vars

\* the sizes of the tiles the loop of line 143 runs through from position f
RECURSIVE SumFrom(_)
SumFrom(f) == IF more_tiles(f) THEN partition_size(f) + SumFrom(advance(f)) ELSE 0

\* the destination slots of the k-th call that were written
Written(k) == {j \in DOMAIN written[k] : written[k][j] > 0}

\* in every tile iteration partition_size is min(W*G, elements remaining),
\* between 1 and W*G, and W*G unless the tile is the last; the sizes of the
\* tiles sum to the length of the range, and so does what the copies out have
\* moved once the call has returned
TileSizing ==
  calls # <<"small_scan">> =>
    /\ \A w \in Workers :
         pc[w] \in TileLabels =>
           LET psize == partition_size(first[w])
           IN /\ psize = Min(elements_per_group, last - first[w])
              /\ 1 <= psize
              /\ psize <= elements_per_group
              /\ advance(first[w]) < last => psize = elements_per_group
    /\ SumFrom(LoopStart) = last - LoopStart
    /\ \A k \in DOMAIN calls : Finished(k) => Cardinality(Written(k)) = last

\* C18: the tile sizing (partition_size is min(W*G, elements remaining),
\* between 1 and W*G, W*G unless the tile is the last, the sizes summing to N)
\* holds for every length, those above the largest size_type included.
C18_TileSizingAnyLength == TileSizing

\* C19: the small scan over W values for every group size W >= 1, the powers
\* of two and 3, 5, 6, 7 alike: when the loop of doubling offsets has ended
\* the current half of sums holds at every slot i the carry followed by the
\* values 0 ..= i, every distance below W having been covered; every worker
\* that has returned got binary_op(init, fold(all W values)), first[0] is init
\* and first[i], i > 0, is binary_op(init, fold(values[0 .. i))).
C19_SmallScanAnySize ==
  calls = <<"small_scan">> =>
    /\ (\A w \in Workers : pc[w] = "s_round" /\ offset[w] >= groupsize) =>
         \A i \in Workers : sums[Slot(ping[0], i)] = BinaryOp(init, FoldElems(0, i))
    /\ \A w \in Workers :
         call[w] > 1 =>
           /\ carry_in[w] = running(groupsize)
           /\ \A i \in Workers : sums[i] = running(i)

\* seven workers have returned from the small scan of seven values under the
\* non-commutative functor
C19_Witness ==
  /\ calls = <<"small_scan">>
  /\ groupsize = 7
  /\ binary_op = "concat"
  /\ AllDone
  /\ carry_in[6] = <<0, 1, 2, 3, 4, 5, 6, 7>>
  /\ sums[6] = <<0, 1, 2, 3, 4, 5, 6>>
  /\ sums[0] = <<0>>

\* C20: the frame of a scan: no destination slot is written more than once,
\* no slot at or after N is written at all, and once the call has returned
\* every slot of [0, N) has been written exactly once (slot 0 of the overload
\* without initial value by worker 0, every other by the copy out of its tile).
C20_Frame ==
  calls # <<"small_scan">> =>
    \A k \in DOMAIN calls :
      \A j \in DOMAIN result[k] :
        /\ written[k][j] <= 1
        /\ j >= last => (written[k][j] = 0 /\ result[k][j] = Untouched(binary_op))
        /\ written[k][j] = 0 => result[k][j] = Untouched(binary_op)
        /\ (Finished(k) /\ j < last) => written[k][j] = 1
        /\ (calls[k] = "inclusive_scan_noinit" /\ j = 0 /\ last > 0) =>
             (written[k][j] = 1 <=> (call[0] > k \/ pc[0] # "call"))

\* the overload without initial value has returned from a tile and one
\* element more: worker 0 wrote slot 0, the copy out the tile after it, nobody
\* the slots behind
C20_Witness ==
  /\ calls = <<"inclusive_scan_noinit">>
  /\ groupsize = 2
  /\ grainsize = 2
  /\ last = elements_per_group + 1
  /\ AllDone
  /\ \A j \in DOMAIN written[1] : written[1][j] = (IF j < last THEN 1 ELSE 0)

====
